---- MODULE Spec2Model ----
(***************************************************************************)
(* State-machine model of the TaskManager Django application               *)
(* (apps/tasks and apps/users): the stored rows, the request handlers of   *)
(* apps/tasks/views.py, the signal receivers of apps/tasks/signals.py, the *)
(* forms of apps/tasks/forms.py, the admin operations registered in        *)
(* apps/tasks/admin.py, and the registration, login and e-mail activation  *)
(* views of apps/users/views.py.                                           *)
(*                                                                         *)
(* Conventions.                                                            *)
(*  - One action is one request, run to completion: the view, the form     *)
(*    validation, the ORM write and every signal receiver it triggers.     *)
(*    Only SpecConcurrent splits a request in two steps, one that reads    *)
(*    the task row into the view's instance and one that writes; requests  *)
(*    in flight are kept in inflight, which is empty everywhere else.      *)
(*  - Time is the integer clock; a request that starts in a state with     *)
(*    clock = c runs at time c + 1 (timezone.now()).                       *)
(*  - Null (0) stands for None/NULL in integer-coded fields (ids start at  *)
(*    1, times start at 1).                                                *)
(*  - Only POST requests of authenticated users are modelled.              *)
(*  - Fields that no receiver, guard or view decision reads (description,  *)
(*    estimated_hours, tags, file contents) are left out of the rows.      *)
(*  - forms.py spells the date field of TimeEntryForm 'data' in            *)
(*    Meta.fields; the form is modelled with the date field that its       *)
(*    clean_date method and its widgets name.                              *)
(***************************************************************************)
EXTENDS Integers, Sequences, FiniteSets, TLC

VARIABLES tasks, comments, history, checklist, watchers, attachments,
          entries, seq, clock, resp, accounts, session, mail, inflight

vars == <<tasks, comments, history, checklist, watchers, attachments,
          entries, seq, clock, resp, accounts, session, mail, inflight>>

\* The state of apps/users: the user rows, the user of the browser session
\* and the activation e-mails sent so far.
auth == <<accounts, session, mail>>

db == <<tasks, comments, history, checklist, watchers, attachments, entries>>

(***************************************************************************)
(* Bounds of the model                                                     *)
(***************************************************************************)
MaxTasks == 2

MaxSteps == 3

MaxStepsHierarchy == 4

MaxStepsLifecycle == 4

MaxStepsTime == 4

(***************************************************************************)
(* Values                                                                  *)
(***************************************************************************)
Null == 0

Users == {"u1", "u2", "u3"}

NoUser == ""

STATUS_CHOICES == {"new", "in_progress", "review", "completed", "rejected"}

PRIORITY_CHOICES == {"low", "medium", "high", "critical"}

\* users.User: is_staff is a stored flag; u3 is the staff account.
is_staff(u) == u = "u3"

\* hasattr(user, 'is_manager') and user.is_manager(): users.User declares
\* is_staff, is_moderator, is_employee, is_watcher and is_supervisor but no
\* attribute is_manager, so the hasattr test is false for every user.
is_manager(u) == FALSE

\* hasattr(user, 'get_full_name'): users.User (AbstractBaseUser with
\* PermissionsMixin) declares full_name() only.
has_get_full_name(u) == FALSE

\* settings (not part of the sources): one transaction per HTTP call, so an
\* exception that leaves the view rolls back every write of the request.
AtomicRequests == TRUE

(***************************************************************************)
(* Rows                                                                    *)
(***************************************************************************)
TaskIds == DOMAIN tasks

Remove(f, D) == [i \in (DOMAIN f) \ D |-> f[i]]

RowsOfTasks(f, D) == {i \in DOMAIN f : f[i].task \in D}

InitSeq == [task |-> 1, comment |-> 1, history |-> 1, checklist |-> 1,
            watcher |-> 1, attachment |-> 1, entry |-> 1]

\* The answer to the last request: the view, the requesting user, the id the
\* URL names, the HTTP status, how the view ended, the form fields that
\* carry a validation error, the tasks the user was let through to, and the
\* value the request submitted (the status of task_update, the user id of
\* the watcher views).
NoResp == [op |-> "none", user |-> NoUser, target |-> Null, status |-> 0,
           outcome |-> "none", errors |-> {}, shown |-> {}, sent |-> ""]

Response(op, u, target, status, outcome, shown) ==
    [op |-> op, user |-> u, target |-> target, status |-> status,
     outcome |-> outcome, errors |-> {}, shown |-> shown, sent |-> ""]

Invalid(op, u, target, status, errors, shown) ==
    [op |-> op, user |-> u, target |-> target, status |-> status,
     outcome |-> "invalid", errors |-> errors, shown |-> shown, sent |-> ""]

\* The same answer, keeping the status value the form submitted.
Sent(r, status) == [r EXCEPT !.sent = status]

Init ==
    /\ tasks = << >>
    /\ comments = << >>
    /\ history = << >>
    /\ checklist = << >>
    /\ watchers = << >>
    /\ attachments = << >>
    /\ entries = << >>
    /\ seq = InitSeq
    /\ clock = 0
    /\ resp = NoResp
    /\ accounts = [u \in Users |-> [is_active |-> TRUE, last_login |-> Null]]
    /\ session = NoUser
    /\ mail = {}
    /\ inflight = << >>

\* Every request takes time: the request runs at Now.
Now == clock + 1

(***************************************************************************)
(* models.py: Task.clean, and forms.py: TaskCreateForm.clean_parent_task   *)
(***************************************************************************)
ParentOf(T, id) == IF id \in DOMAIN T THEN T[id].parent_task ELSE Null

\* The while loop of Task.clean started at current with the visited set.
\* TRUE when the walk ends without raising.
RECURSIVE CleanWalk(_, _, _, _)
CleanWalk(T, pk, current, visited) ==
    IF current = Null THEN TRUE
    ELSE IF current = pk THEN FALSE
    ELSE IF current \in visited THEN FALSE
    ELSE CleanWalk(T, pk, ParentOf(T, current), visited \cup {current})

\* A variant of the walk that only compares the proposed parent itself.
TaskCleanDirectOnly(T, pk, parent) == parent = Null \/ parent # pk

\* Task.clean for the instance with primary key pk (Null for an unsaved
\* instance) and parent_task = parent: TRUE when no ValidationError.
TaskClean(T, pk, parent) ==
    IF parent = Null THEN TRUE ELSE CleanWalk(T, pk, parent, {})

\* The while loop of clean_parent_task.
RECURSIVE FormWalk(_, _, _, _)
FormWalk(T, pk, current, visited) ==
    IF current = Null THEN TRUE
    ELSE IF current \in visited THEN FALSE
    ELSE IF pk # Null /\ current = pk THEN FALSE
    ELSE FormWalk(T, pk, ParentOf(T, current), visited \cup {current})

\* A variant of the form check that compares the proposed parent itself and
\* never walks its chain.
clean_parent_task_self_only(T, pk, parent) ==
    parent = Null \/ pk = Null \/ parent # pk

clean_parent_task(T, pk, parent) ==
    IF parent = Null THEN TRUE
    ELSE IF pk # Null /\ parent = pk THEN FALSE
    ELSE FormWalk(T, pk, parent, {})

\* Ancestors of a task: the tasks reached by following parent_task.
RECURSIVE AncestorsFrom(_, _, _)
AncestorsFrom(T, current, visited) ==
    IF current = Null \/ current \in visited \/ current \notin DOMAIN T
    THEN visited
    ELSE AncestorsFrom(T, ParentOf(T, current), visited \cup {current})

Ancestors(T, id) == AncestorsFrom(T, ParentOf(T, id), {})

\* on_delete=CASCADE on parent_task: a task and all its descendants.
Subtree(T, id) == {id} \cup {t \in DOMAIN T : id \in Ancestors(T, t)}

(***************************************************************************)
(* views.py: permission predicates                                         *)
(***************************************************************************)
is_watcher_of(u, id) == \E w \in DOMAIN watchers :
                           watchers[w].task = id /\ watchers[w].user = u

can_view_task(u, id) ==
    \/ tasks[id].assignee = u
    \/ tasks[id].creator = u
    \/ is_watcher_of(u, id)
    \/ is_manager(u)

\* An edit test that also lets the assignee through.
can_edit_task_or_assignee(u, id) ==
    tasks[id].creator = u \/ tasks[id].assignee = u \/ is_manager(u)

can_edit_task(u, id) ==
    \/ tasks[id].creator = u
    \/ is_manager(u)

\* A delete test that also lets the assignee through.
can_delete_task_or_assignee(u, id) == can_edit_task(u, id) \/ tasks[id].assignee = u

can_delete_task(u, id) == can_edit_task(u, id)

(***************************************************************************)
(* signals.py: receivers of Task pre_save / post_save                      *)
(***************************************************************************)
TrackedFields == <<"status", "assignee", "priority", "deadline", "title">>

fields_to_track == [status |-> "Status", assignee |-> "Assignee",
                    priority |-> "Priority", deadline |-> "Deadline",
                    title |-> "Title"]

\* A tracker that forgets the priority field.
ChangedFieldsNoPriority(old, new) ==
    SelectSeq(TrackedFields, LAMBDA f : f # "priority" /\ old[f] # new[f])

\* The tracked fields whose value in the instance differs from the stored
\* row, in the iteration order of fields_to_track.
ChangedFields(old, new) ==
    SelectSeq(TrackedFields, LAMBDA f : old[f] # new[f])

\* str(value) if value else '': None, '' and the empty deadline give ''.
FieldStr(f, v) ==
    IF f = "deadline" THEN (IF v = Null THEN "" ELSE ToString(v)) ELSE v

\* track_task_changes: the history rows written before the save.
track_task_changes(id, old, new, changed_by) ==
    LET ch == ChangedFields(old, new)
    IN  [i \in seq.history .. (seq.history + Len(ch) - 1) |->
            LET f == ch[i - seq.history + 1]
            IN  [task |-> id, changed_by |-> changed_by,
                 field |-> fields_to_track[f],
                 old_value |-> FieldStr(f, old[f]),
                 new_value |-> FieldStr(f, new[f]),
                 changed_at |-> Now]]

\* create_system_comments, update branch: the comparisons it makes against
\* the values kept by store_old_values.
CommentedFields == <<"status", "assignee", "deadline">>

SystemCommentKinds(old, new) ==
    SelectSeq(CommentedFields, LAMBDA f : old[f] # new[f])

\* The reassignment branch calls get_full_name() on the old assignee when
\* there is one, otherwise on the new one: AttributeError when the user
\* model has no such method.
ReassignRaises(old, new) ==
    /\ old.assignee # new.assignee
    /\ \/ old.assignee # NoUser /\ ~has_get_full_name(old.assignee)
       \/ old.assignee = NoUser /\ new.assignee # NoUser
                                /\ ~has_get_full_name(new.assignee)

create_system_comments(id, old, new, changed_by) ==
    LET ks == SystemCommentKinds(old, new)
    IN  [i \in seq.comment .. (seq.comment + Len(ks) - 1) |->
            [task |-> id, author |-> changed_by,
             text |-> ks[i - seq.comment + 1], is_system |-> TRUE]]

\* A receiver that stamps the completion time on every save.
set_completed_date_always(new) ==
    IF new.status = "completed"
    THEN [new EXCEPT !.completed_at = Now] ELSE new

\* A receiver that never stamps.
set_completed_date_never(new) == new

\* set_completed_date for a save with created = False.
set_completed_date(new) ==
    IF new.status = "completed" /\ new.completed_at = Null
    THEN [new EXCEPT !.completed_at = Now] ELSE new

\* Model.save() of the existing row id with the instance values new, with
\* every receiver that completes (no receiver raises); old is the stored
\* row the receivers read, s the id counters as the request has advanced
\* them so far.
TaskSave(id, old, new, changed_by, s) ==
    /\ tasks' = [tasks EXCEPT ![id] = set_completed_date(new)]
    /\ history' = history @@ track_task_changes(id, old, new, changed_by)
    /\ comments' = comments @@ create_system_comments(id, old, new, changed_by)
    /\ seq' = [s EXCEPT
                 !.history = @ + Len(ChangedFields(old, new)),
                 !.comment = @ + Len(SystemCommentKinds(old, new))]

\* Model.save() of a new row (created = True): only the creation comment.
TaskInsert(new) ==
    /\ tasks' = tasks @@ (seq.task :> new)
    /\ comments' = comments @@ (seq.comment :>
                      [task |-> seq.task, author |-> new.creator,
                       text |-> "created", is_system |-> TRUE])
    /\ seq' = [seq EXCEPT !.task = @ + 1, !.comment = @ + 1]
    /\ UNCHANGED history

\* on_delete=CASCADE: the rows that go with the tasks D.
CascadeDelete(D) ==
    /\ tasks' = Remove(tasks, D)
    /\ comments' = Remove(comments, RowsOfTasks(comments, D))
    /\ history' = Remove(history, RowsOfTasks(history, D))
    /\ checklist' = Remove(checklist, RowsOfTasks(checklist, D))
    /\ watchers' = Remove(watchers, RowsOfTasks(watchers, D))
    /\ attachments' = Remove(attachments, RowsOfTasks(attachments, D))
    /\ entries' = Remove(entries, RowsOfTasks(entries, D))

(***************************************************************************)
(* forms.py: field validation                                              *)
(***************************************************************************)
\* clean_deadline of both task forms: an empty deadline passes, a deadline
\* before timezone.now() raises.
clean_deadline(d) == d = Null \/ ~(d < Now)

\* A clean_status that lets every transition through.
clean_status_open(old_status, status, u) == TRUE

\* TaskUpdateForm.clean_status: TRUE when no ValidationError.
clean_status(old_status, status, u) ==
    IF old_status = status THEN TRUE
    ELSE IF old_status = "completed" /\ status # "completed"
         THEN is_manager(u)
         ELSE TRUE

ErrorIf(cond, field) == IF cond THEN {field} ELSE {}

\* The field checks that the model form derives from the Task columns:
\* title and assignee are required, status and priority are choices.
TaskFieldErrors(title, status, priority, assignee) ==
    ErrorIf(title = "", "title")
    \cup ErrorIf(status \notin STATUS_CHOICES, "status")
    \cup ErrorIf(priority \notin PRIORITY_CHOICES, "priority")
    \cup ErrorIf(assignee \notin Users, "assignee")

\* TaskCreateForm(request.POST).errors: the instance has no primary key.
TaskCreateFormErrors(title, status, priority, assignee, deadline, parent) ==
    TaskFieldErrors(title, status, priority, assignee)
    \cup ErrorIf(~clean_deadline(deadline), "deadline")
    \cup ErrorIf(parent # Null /\ parent \notin TaskIds, "parent_task")
    \cup ErrorIf(parent \in TaskIds /\ ~clean_parent_task(tasks, Null, parent),
                 "parent_task")
    \cup ErrorIf(parent \in TaskIds /\ ~TaskClean(tasks, Null, parent),
                 "parent_task")

\* TaskUpdateForm(request.POST, instance=task, user=u).errors.
TaskUpdateFormErrors(id, u, title, status, priority, assignee, deadline) ==
    TaskFieldErrors(title, status, priority, assignee)
    \cup ErrorIf(status \in STATUS_CHOICES
                 /\ ~clean_status(tasks[id].status, status, u), "status")
    \cup ErrorIf(~clean_deadline(deadline), "deadline")
    \cup ErrorIf(~TaskClean(tasks, id, tasks[id].parent_task), "parent_task")

\* The model form of the admin change page: no clean_<field> methods.
TaskAdminFormErrors(id, title, status, priority, assignee, parent) ==
    TaskFieldErrors(title, status, priority, assignee)
    \cup ErrorIf(parent # Null /\ parent \notin TaskIds, "parent_task")
    \cup ErrorIf(parent \in TaskIds /\ ~TaskClean(tasks, id, parent),
                 "parent_task")

(***************************************************************************)
(* views.py: task_create, task_update, task_delete                         *)
(***************************************************************************)
Done(ajax) == IF ajax THEN 200 ELSE 302

task_create(u, ajax, title, status, priority, assignee, deadline, parent) ==
    /\ clock' = Now
    /\ IF TaskCreateFormErrors(title, status, priority, assignee, deadline, parent) # {}
       THEN /\ resp' = Invalid("task_create", u, Null, 400,
                     TaskCreateFormErrors(title, status, priority, assignee,
                                          deadline, parent), {})
            /\ UNCHANGED <<db, seq>>
       ELSE /\ TaskInsert([creator |-> u, assignee |-> assignee,
                           status |-> status, priority |-> priority,
                           deadline |-> deadline, title |-> title,
                           parent_task |-> parent, completed_at |-> Null,
                           actual_hours |-> 0])
            /\ resp' = Response("task_create", u, seq.task, Done(ajax), "ok", {})
            /\ UNCHANGED <<checklist, watchers, attachments, entries>>

task_update(u, id, ajax, title, status, priority, assignee, deadline) ==
    /\ clock' = Now
    /\ IF id \notin TaskIds
       THEN /\ resp' = Response("task_update", u, id, 404, "not_found", {})
            /\ UNCHANGED <<db, seq>>
       ELSE IF ~can_edit_task(u, id)
       THEN /\ resp' = Response("task_update", u, id, 403, "denied", {})
            /\ UNCHANGED <<db, seq>>
       ELSE IF TaskUpdateFormErrors(id, u, title, status, priority, assignee, deadline) # {}
       THEN /\ resp' = Sent(Invalid("task_update", u, id, 400,
                     TaskUpdateFormErrors(id, u, title, status, priority,
                                          assignee, deadline), {}), status)
            /\ UNCHANGED <<db, seq>>
       ELSE LET new == [tasks[id] EXCEPT !.title = title, !.status = status,
                           !.priority = priority, !.assignee = assignee,
                           !.deadline = deadline]
            IN  IF ReassignRaises(tasks[id], new) /\ AtomicRequests
                THEN /\ resp' = Sent(Response("task_update", u, id, 500, "error", {}),
                                      status)
                     /\ UNCHANGED <<db, seq>>
                ELSE /\ TaskSave(id, tasks[id], new, u, seq)
                     /\ resp' = Sent(Response("task_update", u, id, Done(ajax),
                                               "ok", {}), status)
                     /\ UNCHANGED <<checklist, watchers, attachments, entries>>

task_delete(u, id, ajax) ==
    /\ clock' = Now
    /\ IF id \notin TaskIds
       THEN /\ resp' = Response("task_delete", u, id, 404, "not_found", {})
            /\ UNCHANGED <<db, seq>>
       ELSE IF ~can_delete_task(u, id)
       THEN /\ resp' = Response("task_delete", u, id,
                                IF ajax THEN 403 ELSE 302, "denied", {})
            /\ UNCHANGED <<db, seq>>
       ELSE /\ CascadeDelete(Subtree(tasks, id))
            /\ resp' = Response("task_delete", u, id, Done(ajax), "ok", {})
            /\ UNCHANGED seq

(***************************************************************************)
(* admin.py: TaskAdmin change form and bulk actions                        *)
(***************************************************************************)
\* The change form of TaskAdmin: a model form over the editable columns
\* (no clean_status, no clean_deadline), validated with Task.clean, saved
\* with Model.save() inside the admin's own transaction.  No _current_user
\* is set, so the receivers fall back to instance.creator.
admin_task_change(u, id, title, status, priority, assignee, deadline, parent) ==
    /\ is_staff(u)
    /\ clock' = Now
    /\ IF id \notin TaskIds
       THEN /\ resp' = Response("admin_task_change", u, id, 302, "not_found", {})
            /\ UNCHANGED <<db, seq>>
       ELSE IF TaskAdminFormErrors(id, title, status, priority, assignee, parent) # {}
       THEN /\ resp' = Invalid("admin_task_change", u, id, 200,
                     TaskAdminFormErrors(id, title, status, priority,
                                         assignee, parent), {})
            /\ UNCHANGED <<db, seq>>
       ELSE LET new == [tasks[id] EXCEPT !.title = title, !.status = status,
                           !.priority = priority, !.assignee = assignee,
                           !.deadline = deadline, !.parent_task = parent]
            IN  IF ReassignRaises(tasks[id], new)
                THEN /\ resp' = Response("admin_task_change", u, id, 500, "error", {})
                     /\ UNCHANGED <<db, seq>>
                ELSE /\ TaskSave(id, tasks[id], new, tasks[id].creator, seq)
                     /\ resp' = Response("admin_task_change", u, id, 302, "ok", {})
                     /\ UNCHANGED <<checklist, watchers, attachments, entries>>

\* queryset.update(**upd) over the selected rows S: the columns named in
\* upd are overwritten, no receiver runs.
QuerysetUpdate(op, u, S, upd) ==
    /\ is_staff(u)
    /\ S # {} /\ S \subseteq TaskIds
    /\ clock' = Now
    /\ tasks' = [id \in TaskIds |->
                   IF id \in S
                   THEN [f \in DOMAIN tasks[id] |->
                           IF f \in DOMAIN upd THEN upd[f] ELSE tasks[id][f]]
                   ELSE tasks[id]]
    /\ resp' = Response(op, u, Null, 302, "ok", {})
    /\ UNCHANGED <<comments, history, checklist, watchers, attachments, entries, seq>>

mark_as_in_progress(u, S) ==
    QuerysetUpdate("mark_as_in_progress", u, S, [status |-> "in_progress"])

mark_as_completed(u, S) ==
    QuerysetUpdate("mark_as_completed", u, S,
                   [status |-> "completed", completed_at |-> Now])

mark_as_review(u, S) ==
    QuerysetUpdate("mark_as_review", u, S, [status |-> "review"])

set_high_priority(u, S) ==
    QuerysetUpdate("set_high_priority", u, S, [priority |-> "high"])

set_low_priority(u, S) ==
    QuerysetUpdate("set_low_priority", u, S, [priority |-> "low"])

(***************************************************************************)
(* Task hierarchy: creation with a parent, updates, admin edits of         *)
(* parent_task, deletion                                                   *)
(***************************************************************************)
IdInputs == 1 .. (MaxTasks + 1)

NextHierarchy ==
    /\ clock < MaxStepsHierarchy
    /\ UNCHANGED <<auth, inflight>>
    /\ \/ \E parent \in {Null} \cup IdInputs :
            /\ seq.task <= MaxTasks
            /\ task_create("u1", FALSE, "t1", "new", "low", "u2", Null, parent)
       \/ \E id \in IdInputs, title \in {"t1", "t2"} :
            task_update("u1", id, FALSE, title, "new", "low", "u2", Null)
       \/ \E id \in IdInputs, parent \in {Null} \cup TaskIds :
            admin_task_change("u3", id, "t1", "new", "low", "u2", Null, parent)
       \/ \E id \in IdInputs : task_delete("u1", id, FALSE)

SpecHierarchy == Init /\ [][NextHierarchy]_vars

\* C1: in every reachable state the parent_task relation is acyclic:
\* following parent_task links from a task never reaches that task again.
C1_ParentAcyclic == \A t \in TaskIds : t \notin Ancestors(tasks, t)

\* An admin edit of parent_task has just been refused by Task.clean (the
\* admin offers existing tasks only) on a task that has a subtask.
C1_Witness ==
    /\ resp.op = "admin_task_change"
    /\ resp.errors = {"parent_task"}
    /\ \E t \in TaskIds : tasks[t].parent_task = resp.target

(***************************************************************************)
(* Task lifecycle: one task, its updates through the view and the admin    *)
(***************************************************************************)
MaxTasksLifecycle == 1

LifecycleIds == 1 .. MaxTasksLifecycle

NextLifecycle ==
    /\ clock < MaxStepsLifecycle
    /\ UNCHANGED <<auth, inflight>>
    /\ \/ \E status \in {"new", "completed"} :
            /\ seq.task <= MaxTasksLifecycle
            /\ task_create("u1", FALSE, "t1", status, "low", "u2", Null, Null)
       \/ \E u \in {"u1", "u2"}, id \in LifecycleIds,
             title \in {"t1", "t2"}, status \in {"in_progress", "completed"},
             priority \in {"low", "high"}, assignee \in {"u2", "u3"},
             deadline \in {Null, 9} :
            task_update(u, id, FALSE, title, status, priority, assignee, deadline)
       \/ \E id \in LifecycleIds, status \in {"in_progress", "completed"} :
            /\ id \in TaskIds
            /\ admin_task_change("u3", id, tasks[id].title, status,
                                 tasks[id].priority, tasks[id].assignee,
                                 tasks[id].deadline, tasks[id].parent_task)
       \/ \E S \in SUBSET LifecycleIds : mark_as_in_progress("u3", S)
       \/ \E S \in SUBSET LifecycleIds : mark_as_completed("u3", S)
       \/ \E S \in SUBSET LifecycleIds : mark_as_review("u3", S)
       \/ \E S \in SUBSET LifecycleIds : set_high_priority("u3", S)
       \/ \E S \in SUBSET LifecycleIds : set_low_priority("u3", S)

SpecLifecycle == Init /\ [][NextLifecycle]_vars

\* C3: completed_at is set exactly once: once the stored completed_at of a
\* task is non-null, no later operation changes its value.
C3_CompletedAtSetOnce ==
    [][\A t \in TaskIds :
          (t \in DOMAIN tasks' /\ tasks[t].completed_at # Null)
             => tasks'[t].completed_at = tasks[t].completed_at]_vars

\* C4: a task_update that moves the status of a task from a non-completed
\* value to 'completed' leaves the stored completed_at non-null.
C4_CompletionStamped ==
    [][(/\ resp'.op = "task_update"
        /\ resp'.target \in TaskIds
        /\ tasks[resp'.target].status # "completed"
        /\ tasks'[resp'.target].status = "completed")
          => tasks'[resp'.target].completed_at # Null]_vars

\* A task_update has just completed a task and stamped it at the time of
\* the request.
C4_Witness ==
    /\ resp.op = "task_update"
    /\ resp.outcome = "ok"
    /\ resp.sent = "completed"
    /\ tasks[resp.target].status = "completed"
    /\ tasks[resp.target].completed_at = clock
    /\ \E h \in DOMAIN history : /\ history[h].task = resp.target
                                 /\ history[h].changed_at = clock
                                 /\ history[h].field = "Status"

\* C5: task_update never moves a stored 'completed' status to another
\* status for a user who is not a manager: such a request is answered with
\* a validation error on status.
C5_CompletedStaysCompleted ==
    [][(/\ resp'.op = "task_update"
        /\ resp'.target \in TaskIds
        /\ tasks[resp'.target].status = "completed"
        /\ ~is_manager(resp'.user))
          => /\ tasks'[resp'.target].status = "completed"
             /\ (resp'.sent \notin {"", "completed"})
                   => (resp'.outcome = "invalid" /\ "status" \in resp'.errors)]_vars

\* The creator has just tried to reopen a completed task and was refused.
C5_Witness ==
    /\ resp.op = "task_update"
    /\ resp.target \in TaskIds
    /\ resp.user = tasks[resp.target].creator
    /\ resp.sent = "in_progress"
    /\ resp.errors = {"status"}
    /\ tasks[resp.target].status = "completed"

\* C6: a successful task_update adds exactly one TaskHistory row for each
\* tracked field whose new value differs from the stored one, with the old
\* value, the new value and changed_by = the requesting user; it adds no
\* row for an unchanged field, and task creation adds no row.
C6_HistoryPerChangedField ==
    [][/\ (resp'.op = "task_update" /\ resp'.outcome = "ok") =>
            LET id == resp'.target
                added == (DOMAIN history') \ (DOMAIN history)
                Shown(v) == IF v = Null THEN "" ELSE ToString(v)
            IN  /\ \A i \in DOMAIN history :
                      i \in DOMAIN history' /\ history'[i] = history[i]
                /\ \A f \in {"status", "priority", "title"} :
                      LET rows == {i \in added :
                                     history'[i].field = fields_to_track[f]}
                      IN  IF tasks[id][f] = tasks'[id][f] THEN rows = {}
                          ELSE /\ Cardinality(rows) = 1
                               /\ \A i \in rows :
                                    /\ history'[i].old_value = tasks[id][f]
                                    /\ history'[i].new_value = tasks'[id][f]
                /\ LET rows == {i \in added : history'[i].field = "Deadline"}
                   IN  IF tasks[id].deadline = tasks'[id].deadline THEN rows = {}
                       ELSE /\ Cardinality(rows) = 1
                            /\ \A i \in rows :
                                 /\ history'[i].old_value = Shown(tasks[id].deadline)
                                 /\ history'[i].new_value = Shown(tasks'[id].deadline)
                /\ LET rows == {i \in added : history'[i].field = "Assignee"}
                   IN  IF tasks[id].assignee = tasks'[id].assignee THEN rows = {}
                       ELSE /\ Cardinality(rows) = 1
                            /\ \A i \in rows :
                                 /\ history'[i].old_value = tasks[id].assignee
                                 /\ history'[i].new_value = tasks'[id].assignee
                /\ \A i \in added : /\ history'[i].task = id
                                    /\ history'[i].changed_by = resp'.user
                                    /\ history'[i].field \in
                                         {fields_to_track[f] : f \in DOMAIN fields_to_track}
       /\ (resp'.op = "task_create") => history' = history]_vars

\* A task_update has just changed several tracked fields at once and left
\* one history row for each of them and none for the others.
C6_Witness ==
    /\ resp.op = "task_update"
    /\ resp.outcome = "ok"
    /\ Cardinality({h \in DOMAIN history : history[h].changed_at = clock}) = 3
    /\ \E h \in DOMAIN history : /\ history[h].changed_at = clock
                                 /\ history[h].field = "Deadline"
                                 /\ history[h].changed_by = resp.user

(***************************************************************************)
(* Time entries: forms.py TimeEntryForm, signals.py update_actual_hours,   *)
(* views.py task_time_entry_create / task_time_entry_delete, admin.py      *)
(* TimeEntryAdmin and TimeEntryInline                                      *)
(***************************************************************************)
\* Hours are counted in hundredths of an hour (DecimalField with two
\* decimal places); a date is given as its age in days (today = 0, a
\* future date is negative).
RECURSIVE SumHours(_, _)
SumHours(E, S) ==
    IF S = {} THEN 0
    ELSE LET e == CHOOSE x \in S : TRUE
         IN  E[e].hours + SumHours(E, S \ {e})

\* task.time_entries.aggregate(Sum('hours'))['total'] or 0 over the rows E.
TotalHours(E, id) == SumHours(E, {e \in DOMAIN E : E[e].task = id})

\* TimeEntryForm.clean_hours: below 0.1 or above 24 raises.
clean_hours(hours) == ~(hours < 10) /\ ~(hours > 2400)

\* TimeEntryForm.clean_date: a future date or one older than 30 days raises.
clean_date(age) == ~(age < 0) /\ ~(age > 30)

TimeEntryFormErrors(hours, age) ==
    ErrorIf(~clean_hours(hours), "hours") \cup ErrorIf(~clean_date(age), "date")

\* A receiver that adds the hours of the saved entry to the stored total.
update_actual_hours_increment(T, E, e) ==
    [T EXCEPT ![E[e].task].actual_hours = @ + E[e].hours]

\* update_actual_hours: post_save of the entry e, over the task rows T and
\* the entry rows E as they are after the save.
update_actual_hours(T, E, e) ==
    LET id == E[e].task
    IN  IF T[id].actual_hours # TotalHours(E, id)
        THEN [T EXCEPT ![id].actual_hours = TotalHours(E, id)]
        ELSE T

\* task.actual_hours = aggregate; task.save(update_fields=['actual_hours'])
\* on the instance the view read at the start of the request, with the Task
\* receivers that this save triggers.  E are the entry rows after the
\* view's insert or delete, T the task rows at that point.
SaveActualHours(id, T, E, s) ==
    TaskSave(id, T[id], [tasks[id] EXCEPT !.actual_hours = TotalHours(E, id)],
             tasks[id].creator, s)

\* A time-logging test that lets every user through.
can_log_time_any(u, id) == TRUE

\* The inline permission test of task_time_entry_create.
can_log_time(u, id) == tasks[id].assignee = u \/ is_manager(u)

\* The inline permission test of task_time_entry_delete.
can_delete_time_entry(u, e) == entries[e].user = u \/ is_manager(u)

task_time_entry_create(u, id, ajax, hours, age) ==
    /\ clock' = Now
    /\ IF id \notin TaskIds
       THEN /\ resp' = Response("task_time_entry_create", u, id, 404, "not_found", {})
            /\ UNCHANGED <<db, seq>>
       ELSE IF ~can_log_time(u, id)
       THEN /\ resp' = Response("task_time_entry_create", u, id, 403, "denied", {})
            /\ UNCHANGED <<db, seq>>
       ELSE IF TimeEntryFormErrors(hours, age) # {}
       THEN /\ resp' = Invalid("task_time_entry_create", u, id, 400,
                               TimeEntryFormErrors(hours, age), {id})
            /\ UNCHANGED <<db, seq>>
       ELSE LET E == entries @@ (seq.entry :> [task |-> id, user |-> u, hours |-> hours])
                T == update_actual_hours(tasks, E, seq.entry)
            IN  /\ entries' = E
                /\ SaveActualHours(id, T, E, [seq EXCEPT !.entry = @ + 1])
                /\ resp' = Response("task_time_entry_create", u, id, Done(ajax), "ok", {id})
                /\ UNCHANGED <<checklist, watchers, attachments>>

task_time_entry_delete(u, e, ajax) ==
    /\ clock' = Now
    /\ IF e \notin DOMAIN entries
       THEN /\ resp' = Response("task_time_entry_delete", u, e, 404, "not_found", {})
            /\ UNCHANGED <<db, seq>>
       ELSE IF ~can_delete_time_entry(u, e)
       THEN /\ resp' = Response("task_time_entry_delete", u, e, 403, "denied", {})
            /\ UNCHANGED <<db, seq>>
       ELSE LET id == entries[e].task
                E == Remove(entries, {e})
            IN  /\ entries' = E
                /\ SaveActualHours(id, tasks, E, seq)
                /\ resp' = Response("task_time_entry_delete", u, e, Done(ajax), "ok", {id})
                /\ UNCHANGED <<checklist, watchers, attachments>>

\* TimeEntryAdmin / TimeEntryInline: a direct save of a new entry through
\* the default model form (no clean_hours, no clean_date).
admin_time_entry_add(u, id, user, hours) ==
    /\ is_staff(u)
    /\ id \in TaskIds /\ user \in Users
    /\ clock' = Now
    /\ LET E == entries @@ (seq.entry :> [task |-> id, user |-> user, hours |-> hours])
       IN  /\ entries' = E
           /\ tasks' = update_actual_hours(tasks, E, seq.entry)
    /\ seq' = [seq EXCEPT !.entry = @ + 1]
    /\ resp' = Response("admin_time_entry_add", u, seq.entry, 302, "ok", {id})
    /\ UNCHANGED <<comments, history, checklist, watchers, attachments>>

\* A direct save of an existing entry with new hours.
admin_time_entry_change(u, e, hours) ==
    /\ is_staff(u)
    /\ e \in DOMAIN entries
    /\ clock' = Now
    /\ LET E == [entries EXCEPT ![e].hours = hours]
       IN  /\ entries' = E
           /\ tasks' = update_actual_hours(tasks, E, e)
    /\ resp' = Response("admin_time_entry_change", u, e, 302, "ok", {entries[e].task})
    /\ UNCHANGED <<comments, history, checklist, watchers, attachments, seq>>

\* Deletion through the admin (delete view, inline delete box or the
\* delete-selected action): Model.delete(); no receiver listens to it.
admin_time_entry_delete(u, e) ==
    /\ is_staff(u)
    /\ e \in DOMAIN entries
    /\ clock' = Now
    /\ entries' = Remove(entries, {e})
    /\ resp' = Response("admin_time_entry_delete", u, e, 302, "ok", {entries[e].task})
    /\ UNCHANGED <<tasks, comments, history, checklist, watchers, attachments, seq>>

EntryInputs == 1 .. 2

NextTime ==
    /\ clock < MaxStepsTime
    /\ UNCHANGED <<auth, inflight>>
    /\ \/ /\ seq.task <= MaxTasksLifecycle
          /\ task_create("u1", FALSE, "t1", "new", "low", "u2", Null, Null)
       \/ \E u \in {"u1", "u2"}, id \in LifecycleIds, hours \in {5, 50, 100},
             age \in {-1, 0} :
            task_time_entry_create(u, id, FALSE, hours, age)
       \/ \E u \in {"u1", "u2"}, e \in EntryInputs :
            task_time_entry_delete(u, e, FALSE)
       \/ \E id \in LifecycleIds, hours \in {50, 100} :
            admin_time_entry_add("u3", id, "u2", hours)
       \/ \E e \in EntryInputs, hours \in {50, 100} :
            admin_time_entry_change("u3", e, hours)
       \/ \E e \in EntryInputs : admin_time_entry_delete("u3", e)
       \/ \E id \in LifecycleIds : task_delete("u1", id, FALSE)

SpecTime == Init /\ [][NextTime]_vars

TimeEntryOps == {"task_time_entry_create", "task_time_entry_delete",
                 "admin_time_entry_add", "admin_time_entry_change",
                 "admin_time_entry_delete"}

\* C2: after an operation that creates, modifies or deletes a TimeEntry has
\* completed, the stored actual_hours of the task equals the sum of hours
\* over the remaining TimeEntry rows of the task (0 when there are none).
C2_ActualHoursIsSum ==
    (resp.op \in TimeEntryOps /\ resp.outcome = "ok")
       => \A t \in resp.shown \cap TaskIds :
             tasks[t].actual_hours = TotalHours(entries, t)

(***************************************************************************)
(* views.py: task_list, task_detail                                        *)
(***************************************************************************)
allowed_ordering == {"created_at", "-created_at", "deadline", "-deadline",
                     "priority", "-priority", "status", "-status",
                     "title", "-title"}

\* A base queryset without the visibility filter.
TaskListAll(u) == TaskIds

\* The base queryset of task_list: every task for a manager, otherwise the
\* tasks matched by Q(assignee) | Q(creator) | Q(watchers__user).
TaskListBase(u) ==
    IF is_manager(u) THEN TaskIds
    ELSE {t \in TaskIds : \/ tasks[t].assignee = u
                          \/ tasks[t].creator = u
                          \/ is_watcher_of(u, t)}

\* The status and priority query parameters ("" when absent); the priority
\* branch filters on status again, with the status parameter as given
\* (None when absent, which matches no row).
TaskListFiltered(u, status, priority) ==
    LET base == TaskListBase(u)
        byStatus == IF status # "" THEN {t \in base : tasks[t].status = status}
                    ELSE base
    IN  IF priority # ""
        THEN {t \in byStatus : status # "" /\ tasks[t].status = status}
        ELSE byStatus

\* request.GET: the query parameters task_list reads, each with the string
\* the URL carries or Absent when the URL does not name it.
Absent == "<absent>"

QueryKeys == {"status", "priority", "assignee", "creator", "deadline_from",
              "deadline_to", "tags", "ordering", "per_page"}

\* request.GET.get(k, default).
Get(GET, k, default) == IF GET[k] = Absent THEN default ELSE GET[k]

\* int(s) on the strings the requests carry: the strings outside the domain
\* raise ValueError.
IntOf == ("-5" :> -5) @@ ("0" :> 0) @@ ("1" :> 1) @@ ("2" :> 2) @@
         ("20" :> 20) @@ ("500" :> 500)

\* datetime.strptime(s, '%Y-%m-%d') on the strings the requests carry, as a
\* point on the clock; the strings outside the domain raise ValueError.
DateOf == ("2026-11-02" :> 2) @@ ("2026-11-10" :> 10)

\* The user a primary key names.
UserOfPk(n) == IF n = 1 THEN "u1" ELSE IF n = 2 THEN "u2"
               ELSE IF n = 3 THEN "u3" ELSE NoUser

\* tag_ids of the tags parameter on the strings the requests carry: the
\* comma-separated pieces that are digits.
TagIds(s) == IF s = "1" THEN {1} ELSE IF s = "1,x" THEN {1} ELSE {}

\* The assignee, creator, deadline_from, deadline_to and tags filters over
\* the tasks S: each is applied when its value parses and skipped, with a
\* warning in the log, when parsing raises ValueError.
TaskListNarrowed(S, GET) ==
    LET assignee == Get(GET, "assignee", "")
        creator == Get(GET, "creator", "")
        deadline_from == Get(GET, "deadline_from", "")
        deadline_to == Get(GET, "deadline_to", "")
        tags == Get(GET, "tags", "")
        s1 == IF assignee # "" /\ assignee \in DOMAIN IntOf
              THEN {t \in S : /\ UserOfPk(IntOf[assignee]) # NoUser
                              /\ tasks[t].assignee = UserOfPk(IntOf[assignee])}
              ELSE S
        s2 == IF creator # "" /\ creator \in DOMAIN IntOf
              THEN {t \in s1 : tasks[t].creator = UserOfPk(IntOf[creator])}
              ELSE s1
        s3 == IF deadline_from # "" /\ deadline_from \in DOMAIN DateOf
              THEN {t \in s2 : /\ tasks[t].deadline # Null
                               /\ tasks[t].deadline >= DateOf[deadline_from]}
              ELSE s2
        s4 == IF deadline_to # "" /\ deadline_to \in DOMAIN DateOf
              THEN {t \in s3 : /\ tasks[t].deadline # Null
                               /\ tasks[t].deadline <= DateOf[deadline_to]}
              ELSE s3
    \* tasks are stored without tags: tags__id__in matches no row
    IN  IF tags # "" /\ TagIds(tags) # {} THEN {} ELSE s4

\* per_page = min(max(int(...), 1), 100), or 20 when int() raises.
PerPage(GET) ==
    LET given == Get(GET, "per_page", "20")
    IN  IF given \in DOMAIN IntOf
        THEN (IF IntOf[given] < 1 THEN 1
              ELSE IF IntOf[given] > 100 THEN 100 ELSE IntOf[given])
        ELSE 20

\* paginator.page(1) of the tasks S in Meta.ordering (-created_at: the
\* latest id first).
FirstPage(S, per_page) ==
    {t \in S : Cardinality({o \in S : o > t}) < per_page}

\* per_page is bound only when the ordering parameter is in allowed_ordering;
\* otherwise Paginator(tasks, per_page) raises UnboundLocalError, which the
\* outer handler turns into the 500 page.  The answer keeps the query and
\* the page size next to the tasks of the page.
task_list(u, GET) ==
    /\ clock' = Now
    /\ resp' = IF Get(GET, "ordering", "-created_at") \in allowed_ordering
               THEN Response("task_list", u, Null, 200, "ok",
                       FirstPage(TaskListNarrowed(
                                    TaskListFiltered(u, Get(GET, "status", ""),
                                                     Get(GET, "priority", "")),
                                    GET),
                                 PerPage(GET)))
                    @@ [query |-> GET, per_page |-> PerPage(GET)]
               ELSE Response("task_list", u, Null, 500, "error", {})
                    @@ [query |-> GET, per_page |-> Null]
    /\ UNCHANGED <<db, seq>>

\* The query that names the given parameters and no other.
Query(given) ==
    [k \in QueryKeys |-> IF k \in DOMAIN given THEN given[k] ELSE Absent]

\* task_detail builds a queryset and never calls get(): Task.DoesNotExist
\* cannot be raised, and can_view_task(request.user, <queryset>) raises
\* AttributeError on task.assignee, which the outer handler turns into the
\* 500 page, whatever the id and whoever asks.
task_detail(u, id) ==
    /\ clock' = Now
    /\ resp' = Response("task_detail", u, id, 500, "error", {})
    /\ UNCHANGED <<db, seq>>

(***************************************************************************)
(* views.py: comments                                                      *)
(***************************************************************************)
\* TaskCommentForm.clean_text: the stripped text must not be empty.
CommentFormErrors(text) == ErrorIf(text = "", "text")

\* An author test that lets every user through.
can_change_comment_any(u, c) == TRUE

\* The author test shared by comment_update and task_comment_delete.
can_change_comment(u, c) == ~(comments[c].author # u /\ ~is_manager(u))

\* The JSON branch puts the bound method comment.author.full_name in the
\* payload: JsonResponse raises TypeError and the request is rolled back.
task_comment_create(u, id, ajax, text) ==
    /\ clock' = Now
    /\ IF id \notin TaskIds
       THEN /\ resp' = Response("task_comment_create", u, id, 404, "not_found", {})
            /\ UNCHANGED <<db, seq>>
       ELSE IF ~can_view_task(u, id)
       THEN /\ resp' = Response("task_comment_create", u, id, 403, "denied", {})
            /\ UNCHANGED <<db, seq>>
       ELSE IF CommentFormErrors(text) # {}
       THEN /\ resp' = Invalid("task_comment_create", u, id,
                               IF ajax THEN 400 ELSE 302,
                               CommentFormErrors(text), {id})
            /\ UNCHANGED <<db, seq>>
       ELSE IF ajax /\ AtomicRequests
       THEN /\ resp' = Response("task_comment_create", u, id, 500, "error", {id})
            /\ UNCHANGED <<db, seq>>
       ELSE /\ comments' = comments @@ (seq.comment :>
                             [task |-> id, author |-> u, text |-> text,
                              is_system |-> FALSE])
            /\ seq' = [seq EXCEPT !.comment = @ + 1]
            /\ resp' = IF ajax
                       THEN Response("task_comment_create", u, id, 500, "error", {id})
                       ELSE Response("task_comment_create", u, id, 302, "ok", {id})
            /\ UNCHANGED <<tasks, history, checklist, watchers, attachments, entries>>

comment_update(u, c, ajax, text) ==
    /\ clock' = Now
    /\ IF c \notin DOMAIN comments
       THEN /\ resp' = Response("comment_update", u, c, 404, "not_found", {})
            /\ UNCHANGED <<db, seq>>
       ELSE IF comments[c].is_system
       THEN /\ resp' = Response("comment_update", u, c, 400, "system", {})
            /\ UNCHANGED <<db, seq>>
       ELSE IF ~can_change_comment(u, c)
       THEN /\ resp' = Response("comment_update", u, c, 403, "denied", {})
            /\ UNCHANGED <<db, seq>>
       ELSE IF CommentFormErrors(text) # {}
       THEN /\ resp' = Invalid("comment_update", u, c, 400,
                               CommentFormErrors(text), {})
            /\ UNCHANGED <<db, seq>>
       ELSE /\ comments' = [comments EXCEPT ![c].text = text]
            /\ resp' = Response("comment_update", u, c, Done(ajax), "ok", {})
            /\ UNCHANGED <<tasks, history, checklist, watchers, attachments,
                           entries, seq>>

task_comment_delete(u, c, ajax) ==
    /\ clock' = Now
    /\ IF c \notin DOMAIN comments
       THEN /\ resp' = Response("task_comment_delete", u, c, 404, "not_found", {})
            /\ UNCHANGED <<db, seq>>
       ELSE IF ~can_change_comment(u, c)
       THEN /\ resp' = Response("task_comment_delete", u, c, 403, "denied", {})
            /\ UNCHANGED <<db, seq>>
       ELSE /\ comments' = Remove(comments, {c})
            /\ resp' = Response("task_comment_delete", u, c, Done(ajax), "ok", {})
            /\ UNCHANGED <<tasks, history, checklist, watchers, attachments,
                           entries, seq>>

(***************************************************************************)
(* views.py: watchers                                                      *)
(***************************************************************************)
\* views.User is settings.AUTH_USER_MODEL, a string: User.objects raises
\* AttributeError, and so does User.DoesNotExist in the except clause, so
\* every request that reaches the lookup ends in the 500 page.  The view
\* has no statement that creates a TaskWatcher row.
task_watcher_add(u, id, ajax, user_id) ==
    /\ clock' = Now
    /\ resp' =
         IF id \notin TaskIds
         THEN Response("task_watcher_add", u, id, 404, "not_found", {})
         ELSE IF ~can_edit_task(u, id)
         THEN Response("task_watcher_add", u, id, 403, "denied", {})
         ELSE IF user_id = NoUser
         THEN Sent(Invalid("task_watcher_add", u, id, 400, {"user_id"}, {id}),
                   user_id)
         ELSE Sent(Response("task_watcher_add", u, id, 500, "error", {id}),
                   user_id)
    /\ UNCHANGED <<db, seq>>

\* The permission test of task_watcher_remove.
can_remove_watcher(u, id, user_id) == ~(~can_edit_task(u, id) /\ u # user_id)

\* get_object_or_404(User, id=user_id) with the string User raises
\* ValueError before any permission test.
task_watcher_remove(u, id, user_id, ajax) ==
    /\ clock' = Now
    /\ resp' =
         IF id \notin TaskIds
         THEN Response("task_watcher_remove", u, id, 404, "not_found", {})
         ELSE Sent(Response("task_watcher_remove", u, id, 500, "error", {}),
                   user_id)
    /\ UNCHANGED <<db, seq>>

\* admin.py TaskWatcherInline: a watcher row added on the task's admin
\* page; unique_together (task, user) refuses a duplicate.
admin_watcher_add(u, id, user) ==
    /\ is_staff(u)
    /\ id \in TaskIds /\ user \in Users
    /\ clock' = Now
    /\ IF is_watcher_of(user, id)
       THEN /\ resp' = Invalid("admin_watcher_add", u, id, 200, {"user"}, {})
            /\ UNCHANGED <<db, seq>>
       ELSE /\ watchers' = watchers @@ (seq.watcher :> [task |-> id, user |-> user])
            /\ seq' = [seq EXCEPT !.watcher = @ + 1]
            /\ resp' = Response("admin_watcher_add", u, id, 302, "ok", {})
            /\ UNCHANGED <<tasks, comments, history, checklist, attachments, entries>>

(***************************************************************************)
(* views.py: checklist                                                     *)
(***************************************************************************)
\* The inline permission test of the checklist create and toggle views.
can_change_checklist(u, id) ==
    \/ tasks[id].creator = u
    \/ tasks[id].assignee = u
    \/ is_manager(u)

\* TaskChecklistItemForm: clean_item_text refuses an empty text; order is a
\* required field (the model field has a default but is not blank).  The
\* submitted order is << >> when absent and <<n>> when given.
ChecklistFormErrors(item_text, order) ==
    ErrorIf(item_text = "", "item_text") \cup ErrorIf(order = << >>, "order")

\* Max('order') over the checklist of the task, or 0.
MaxOrder(id) ==
    LET os == {checklist[i].order : i \in RowsOfTasks(checklist, {id})}
    IN  IF os = {} THEN 0 ELSE CHOOSE m \in os : \A o \in os : o <= m

\* The success branch tests the header 'X-Request-With', which no client
\* sends: the answer is the redirect.
task_checklist_item_create(u, id, ajax, item_text, order) ==
    /\ clock' = Now
    /\ IF id \notin TaskIds
       THEN /\ resp' = Response("task_checklist_item_create", u, id, 404, "not_found", {})
            /\ UNCHANGED <<db, seq>>
       ELSE IF ~can_change_checklist(u, id)
       THEN /\ resp' = Response("task_checklist_item_create", u, id, 403, "denied", {})
            /\ UNCHANGED <<db, seq>>
       ELSE IF ChecklistFormErrors(item_text, order) # {}
       THEN /\ resp' = Invalid("task_checklist_item_create", u, id, 400,
                               ChecklistFormErrors(item_text, order), {id})
            /\ UNCHANGED <<db, seq>>
       ELSE /\ checklist' = checklist @@ (seq.checklist :>
                   [task |-> id, item_text |-> item_text, is_completed |-> FALSE,
                    order |-> IF order[1] = 0 THEN MaxOrder(id) + 1 ELSE order[1],
                    completed_at |-> Null, completed_by |-> NoUser])
            /\ seq' = [seq EXCEPT !.checklist = @ + 1]
            /\ resp' = Response("task_checklist_item_create", u, id, 302, "ok", {id})
            /\ UNCHANGED <<tasks, comments, history, watchers, attachments, entries>>

\* The item as the toggle view saves it.
Toggled(item, u) ==
    IF ~item.is_completed
    THEN [item EXCEPT !.is_completed = TRUE, !.completed_at = Now,
                      !.completed_by = u]
    ELSE [item EXCEPT !.is_completed = FALSE, !.completed_at = Null,
                      !.completed_by = NoUser]

\* A toggle view that saves the item before it tests the permission.
task_checklist_item_toggle_unguarded(u, i, ajax) ==
    /\ clock' = Now
    /\ IF i \notin DOMAIN checklist
       THEN /\ resp' = Response("task_checklist_item_toggle", u, i, 404, "not_found", {})
            /\ UNCHANGED <<db, seq>>
       ELSE /\ checklist' = [checklist EXCEPT ![i] = Toggled(@, u)]
            /\ resp' = IF ~can_change_checklist(u, checklist[i].task)
                       THEN Response("task_checklist_item_toggle", u, i, 200, "denied", {})
                       ELSE Response("task_checklist_item_toggle", u, i, Done(ajax), "ok",
                                     {checklist[i].task})
            /\ UNCHANGED <<tasks, comments, history, watchers, attachments,
                           entries, seq>>

\* The refusal is a JsonResponse without a status argument: 200.
task_checklist_item_toggle(u, i, ajax) ==
    /\ clock' = Now
    /\ IF i \notin DOMAIN checklist
       THEN /\ resp' = Response("task_checklist_item_toggle", u, i, 404, "not_found", {})
            /\ UNCHANGED <<db, seq>>
       ELSE IF ~can_change_checklist(u, checklist[i].task)
       THEN /\ resp' = Response("task_checklist_item_toggle", u, i, 200, "denied", {})
            /\ UNCHANGED <<db, seq>>
       ELSE /\ checklist' = [checklist EXCEPT ![i] = Toggled(@, u)]
            /\ resp' = Response("task_checklist_item_toggle", u, i, Done(ajax), "ok",
                                {checklist[i].task})
            /\ UNCHANGED <<tasks, comments, history, watchers, attachments,
                           entries, seq>>

\* The refusal is a JsonResponse without a status argument: 200.
task_checklist_item_delete(u, i, ajax) ==
    /\ clock' = Now
    /\ IF i \notin DOMAIN checklist
       THEN /\ resp' = Response("task_checklist_item_delete", u, i, 404, "not_found", {})
            /\ UNCHANGED <<db, seq>>
       ELSE IF ~can_edit_task(u, checklist[i].task)
       THEN /\ resp' = Response("task_checklist_item_delete", u, i, 200, "denied", {})
            /\ UNCHANGED <<db, seq>>
       ELSE /\ checklist' = Remove(checklist, {i})
            /\ resp' = Response("task_checklist_item_delete", u, i, Done(ajax), "ok",
                                {checklist[i].task})
            /\ UNCHANGED <<tasks, comments, history, watchers, attachments,
                           entries, seq>>

(***************************************************************************)
(* views.py: attachments                                                   *)
(***************************************************************************)
\* A submitted file: its extension and its size in megabytes; NoFile when
\* the request carries none.
NoFile == [ext |-> "", size |-> 0]

allowed_extensions == {".pdf", ".doc", ".docs", ".xls", ".xlsx", ".txt", ".md",
                       ".jpg", ".jpeg", ".png", ".gif", ".zip", ".rar"}

\* TaskAttachmentForm.clean_file: a missing file, a file above 10 MB or an
\* extension outside the white list raises.
AttachmentFormErrors(file) ==
    ErrorIf(\/ file = NoFile
            \/ file.size > 10
            \/ file.ext \notin allowed_extensions, "file")

\* The inline permission test of task_attachment_delete.
can_delete_attachment(u, a) ==
    \/ attachments[a].uploaded_by = u
    \/ tasks[attachments[a].task].creator = u
    \/ is_manager(u)

task_attachment_upload(u, id, file) ==
    /\ clock' = Now
    /\ IF id \notin TaskIds
       THEN /\ resp' = Response("task_attachment_upload", u, id, 404, "not_found", {})
            /\ UNCHANGED <<db, seq>>
       ELSE IF ~can_view_task(u, id)
       THEN /\ resp' = Response("task_attachment_upload", u, id, 403, "denied", {})
            /\ UNCHANGED <<db, seq>>
       ELSE IF AttachmentFormErrors(file) # {}
       THEN /\ resp' = Invalid("task_attachment_upload", u, id, 400,
                               AttachmentFormErrors(file), {id})
            /\ UNCHANGED <<db, seq>>
       ELSE /\ attachments' = attachments @@ (seq.attachment :>
                   [task |-> id, uploaded_by |-> u, file_name |-> file.ext,
                    file_size |-> file.size])
            /\ seq' = [seq EXCEPT !.attachment = @ + 1]
            /\ resp' = Response("task_attachment_upload", u, id, 200, "ok", {id})
            /\ UNCHANGED <<tasks, comments, history, checklist, watchers, entries>>

task_attachment_delete(u, a, ajax) ==
    /\ clock' = Now
    /\ IF a \notin DOMAIN attachments
       THEN /\ resp' = Response("task_attachment_delete", u, a, 404, "not_found", {})
            /\ UNCHANGED <<db, seq>>
       ELSE IF ~can_delete_attachment(u, a)
       THEN /\ resp' = Response("task_attachment_delete", u, a, 403, "denied", {})
            /\ UNCHANGED <<db, seq>>
       ELSE /\ attachments' = Remove(attachments, {a})
            /\ resp' = Response("task_attachment_delete", u, a, Done(ajax), "ok", {})
            /\ UNCHANGED <<tasks, comments, history, checklist, watchers,
                           entries, seq>>

(***************************************************************************)
(* The task endpoints of urls.py, with the admin inline that adds watchers *)
(***************************************************************************)
RowInputs == 1 .. 2

Actors == {"u1", "u3"}

Files == {NoFile, [ext |-> ".pdf", size |-> 1], [ext |-> ".docx", size |-> 1],
          [ext |-> ".pdf", size |-> 11]}

Next ==
    /\ clock < MaxSteps
    /\ UNCHANGED <<auth, inflight>>
    /\ \/ \E title \in {"", "t1"} :
            /\ seq.task <= MaxTasks
            /\ task_create("u1", FALSE, title, "new", "low", "u2", Null, Null)
       \/ \E u \in Actors, status \in {"", "new"},
             ordering \in {"-created_at", "rank"} :
            task_list(u, Query([status |-> status, ordering |-> ordering]))
       \/ \E u \in Actors, id \in IdInputs : task_detail(u, id)
       \/ \E u \in Users, id \in IdInputs, title \in {"", "t1"} :
            task_update(u, id, FALSE, title, "completed", "low", "u2", Null)
       \/ \E u \in Users, id \in IdInputs, ajax \in BOOLEAN :
            task_delete(u, id, ajax)
       \/ \E u \in Actors, id \in IdInputs, ajax \in BOOLEAN, text \in {"", "c1"} :
            task_comment_create(u, id, ajax, text)
       \/ \E u \in Actors, c \in RowInputs, text \in {"", "c2"} :
            comment_update(u, c, FALSE, text)
       \/ \E u \in Actors, c \in RowInputs : task_comment_delete(u, c, FALSE)
       \/ \E u \in Actors, id \in IdInputs, user_id \in {NoUser, "u2", "u9"} :
            task_watcher_add(u, id, FALSE, user_id)
       \/ \E u \in Actors, id \in IdInputs, user_id \in {"u3", "u9"} :
            task_watcher_remove(u, id, user_id, FALSE)
       \/ \E id \in IdInputs : admin_watcher_add("u3", id, "u3")
       \/ \E u \in Actors, id \in IdInputs, item_text \in {"", "i1"},
             order \in {<< >>, <<0>>} :
            task_checklist_item_create(u, id, FALSE, item_text, order)
       \/ \E u \in Actors, i \in RowInputs, ajax \in BOOLEAN :
            task_checklist_item_toggle(u, i, ajax)
       \/ \E u \in Actors, i \in RowInputs : task_checklist_item_delete(u, i, FALSE)
       \/ \E u \in Actors, id \in IdInputs, file \in Files :
            task_attachment_upload(u, id, file)
       \/ \E u \in Actors, a \in RowInputs : task_attachment_delete(u, a, FALSE)
       \/ \E u \in {"u2", "u3"}, id \in IdInputs, hours \in {5, 50} :
            task_time_entry_create(u, id, FALSE, hours, 0)
       \/ \E u \in {"u2", "u3"}, e \in RowInputs : task_time_entry_delete(u, e, FALSE)

Spec == Init /\ [][Next]_vars

\* The endpoints that test a permission, by the table of the id in the URL.
TaskOps == {"task_detail", "task_update", "task_delete", "task_comment_create",
            "task_watcher_add", "task_watcher_remove",
            "task_checklist_item_create", "task_attachment_upload",
            "task_time_entry_create"}

CommentOps == {"comment_update", "task_comment_delete"}

ChecklistOps == {"task_checklist_item_toggle", "task_checklist_item_delete"}

AttachmentOps == {"task_attachment_delete"}

EntryOps == {"task_time_entry_delete"}

WatcherOps == {"task_watcher_add", "task_watcher_remove"}

PermissionOps == TaskOps \cup CommentOps \cup ChecklistOps \cup AttachmentOps
                 \cup EntryOps

\* The ids that have a row in the table the endpoint looks its id up in.
TargetRows(op) ==
    CASE op \in TaskOps -> TaskIds
      [] op \in CommentOps -> DOMAIN comments
      [] op \in ChecklistOps -> DOMAIN checklist
      [] op \in AttachmentOps -> DOMAIN attachments
      [] op \in EntryOps -> DOMAIN entries

\* The permission test each endpoint applies to the requesting user.
PermissionCheck(op, u, target, user_id) ==
    CASE op \in {"task_detail", "task_comment_create", "task_attachment_upload"}
           -> can_view_task(u, target)
      [] op \in {"task_update", "task_watcher_add"} -> can_edit_task(u, target)
      [] op = "task_delete" -> can_delete_task(u, target)
      [] op = "task_watcher_remove" -> can_remove_watcher(u, target, user_id)
      [] op = "task_checklist_item_create" -> can_change_checklist(u, target)
      [] op = "task_checklist_item_toggle"
           -> can_change_checklist(u, checklist[target].task)
      [] op = "task_checklist_item_delete"
           -> can_edit_task(u, checklist[target].task)
      [] op \in CommentOps -> can_change_comment(u, target)
      [] op = "task_attachment_delete" -> can_delete_attachment(u, target)
      [] op = "task_time_entry_create" -> can_log_time(u, target)
      [] op = "task_time_entry_delete" -> can_delete_time_entry(u, target)

\* The request just answered named an existing row and its user fails the
\* permission test of the endpoint, judged on the rows before the request.
PermissionFails ==
    /\ resp'.op \in PermissionOps
    /\ resp'.target \in TargetRows(resp'.op)
    /\ ~PermissionCheck(resp'.op, resp'.user, resp'.target, resp'.sent)

\* The request just answered named an id that has no row: the id in the URL,
\* or the user id given to a watcher view.
NamesMissingRow ==
    /\ resp'.op \in PermissionOps
    /\ \/ resp'.target \notin TargetRows(resp'.op)
       \/ /\ resp'.op \in WatcherOps
          /\ resp'.sent \notin Users \cup {NoUser}

\* C7: on every endpoint that checks a permission, a request from a user who
\* fails the check is answered with status 403.
C7_PermissionFailureIs403 ==
    [][PermissionFails => resp'.status = 403]_vars

\* C8: a request that names an id with no matching row (task, comment,
\* checklist item, attachment, time entry, or the user of a watcher view) is
\* answered with status 404.
C8_MissingRowIs404 ==
    [][NamesMissingRow => resp'.status = 404]_vars

\* C9: a request whose permission check fails or whose form is invalid
\* leaves every stored row unchanged (tasks, comments, history, checklist
\* items, watchers, attachments, time entries), so no receiver has written
\* anything; and a form is validated only after the permission check passed.
C9_FailedRequestWritesNothing ==
    [][/\ (PermissionFails \/ resp'.errors # {}) => UNCHANGED <<db, seq>>
       /\ (resp'.errors # {} /\ resp'.op \in PermissionOps)
             => /\ resp'.target \in TargetRows(resp'.op)
                /\ PermissionCheck(resp'.op, resp'.user, resp'.target, resp'.sent)
      ]_vars

\* A stranger to the task has just been refused by the toggle view on an
\* existing checklist item, which is still open.
C9_Witness ==
    /\ resp.op = "task_checklist_item_toggle"
    /\ resp.outcome = "denied"
    /\ resp.target \in DOMAIN checklist
    /\ ~checklist[resp.target].is_completed
    /\ ~can_change_checklist(resp.user, checklist[resp.target].task)

\* The views whose answer shows a task to the user or lets the user add to it.
ViewingOps == {"task_list", "task_detail", "task_comment_create",
               "task_attachment_upload"}

C11_OnlyEditorsUpdate ==
    [][(resp'.op = "task_update" /\ resp'.target \in TaskIds) =>
          LET u == resp'.user
              id == resp'.target
          IN  /\ ~UNCHANGED <<db, seq>>
                    => (tasks[id].creator = u \/ is_manager(u) \/ is_staff(u))
              /\ ( /\ tasks[id].assignee = u \/ is_watcher_of(u, id)
                   /\ tasks[id].creator # u
                   /\ ~is_manager(u) )
                    => UNCHANGED <<db, seq>>
      ]_vars

\* The assignee of a task, who did not create it, has just asked task_update
\* to complete it and was refused; the task is not completed.
C11_Witness ==
    /\ resp.op = "task_update"
    /\ resp.status = 403
    /\ resp.target \in TaskIds
    /\ tasks[resp.target].assignee = resp.user
    /\ tasks[resp.target].creator # resp.user
    /\ tasks[resp.target].status # "completed"

C13_CommentEditGuarded ==
    [][(resp'.op = "comment_update" /\ resp'.target \in DOMAIN comments) =>
          LET u == resp'.user
              c == comments[resp'.target]
          IN  /\ ~UNCHANGED <<db, seq>>
                    => (~c.is_system /\ (c.author = u \/ is_manager(u)))
              /\ c.is_system
                    => (resp'.status = 400 /\ UNCHANGED <<db, seq>>)
              /\ (~c.is_system /\ c.author # u /\ ~is_manager(u))
                    => (resp'.status = 403 /\ UNCHANGED <<db, seq>>)
      ]_vars

\* A user has just asked comment_update to rewrite an ordinary comment that
\* another user wrote, and was refused with 403.
C13_Witness ==
    /\ resp.op = "comment_update"
    /\ resp.status = 403
    /\ resp.target \in DOMAIN comments
    /\ ~comments[resp.target].is_system
    /\ comments[resp.target].author # resp.user

\* The author of a system comment has just asked comment_update to rewrite
\* it, and was refused with 400.
C13_WitnessSystem ==
    /\ resp.op = "comment_update"
    /\ resp.status = 400
    /\ resp.target \in DOMAIN comments
    /\ comments[resp.target].is_system
    /\ comments[resp.target].author = resp.user

\* C14: when the requester of task_watcher_add may edit the task and names
\* an existing user who does not watch it yet, a TaskWatcher row for that
\* task and that user exists once the request is answered.
C14_WatcherAddCreatesRow ==
    [][( /\ resp'.op = "task_watcher_add"
         /\ resp'.target \in TaskIds
         /\ can_edit_task(resp'.user, resp'.target)
         /\ resp'.sent \in Users
         /\ ~is_watcher_of(resp'.sent, resp'.target) )
          => \E w \in DOMAIN watchers' :
                /\ watchers'[w].task = resp'.target
                /\ watchers'[w].user = resp'.sent
      ]_vars

\* C15: task_time_entry_create stores an entry only when the requester is
\* the assignee of the task or a manager, and task_time_entry_delete removes
\* an entry only when the requester is the user who logged it or a manager.
C15_TimeEntriesByAuthorisedUser ==
    [][/\ (resp'.op = "task_time_entry_create" /\ resp'.target \in TaskIds)
             => (entries' # entries
                   => \/ tasks[resp'.target].assignee = resp'.user
                      \/ is_manager(resp'.user))
       /\ (resp'.op = "task_time_entry_delete" /\ resp'.target \in DOMAIN entries)
             => (entries' # entries
                   => \/ entries[resp'.target].user = resp'.user
                      \/ is_manager(resp'.user))
      ]_vars

\* A user who is not the assignee has just been refused by
\* task_time_entry_create, although the hours were valid; another user's
\* entry on the task is all the task has.
C15_Witness ==
    /\ resp.op = "task_time_entry_create"
    /\ resp.outcome = "denied"
    /\ resp.target \in TaskIds
    /\ tasks[resp.target].assignee # resp.user
    /\ \E e \in DOMAIN entries : entries[e].task = resp.target
    /\ \A e \in DOMAIN entries : entries[e].user # resp.user

(***************************************************************************)
(* apps/users: registration, login, e-mail activation                      *)
(***************************************************************************)
MaxStepsUsers == 4

\* The e-mail addresses a visitor may register with.
NewUsers == {"u4"}

\* settings.PASSWORD_RESET_TIMEOUT, in clock ticks.
PASSWORD_RESET_TIMEOUT == 2

\* urlsafe_base64_encode(force_bytes(user.pk)) and its inverse: a uidb64
\* that is not base64 text decodes to nothing (ValueError), and so does one
\* whose bytes are not the primary key of a user (ValueError, DoesNotExist).
urlsafe_base64_encode(pk) == <<"b64", pk>>

urlsafe_base64_decode(uidb64) == IF uidb64[1] = "b64" THEN uidb64[2] ELSE NoUser

\* A hash value that leaves the primary key out.
make_hash_value_without_pk(A, pk, timestamp) ==
    <<timestamp, FALSE, A[pk].is_active>>

\* EmailActivationTokenGenerator._make_hash_value: pk, timestamp,
\* getattr(user, 'is_verified', False) (User has no such field) and
\* is_active.
make_hash_value(A, pk, timestamp) ==
    <<pk, timestamp, FALSE, A[pk].is_active>>

\* PasswordResetTokenGenerator.make_token: the timestamp and the keyed hash
\* of the hash value.
make_token(A, pk, timestamp) ==
    [ts |-> timestamp, mac |-> <<"SECRET_KEY", make_hash_value(A, pk, timestamp)>>]

\* PasswordResetTokenGenerator.check_token at time now: the keyed hash must
\* match the one recomputed for the user, and the token must not be older
\* than PASSWORD_RESET_TIMEOUT.
check_token(A, pk, token, now) ==
    /\ token.mac = <<"SECRET_KEY", make_hash_value(A, pk, token.ts)>>
    /\ ~((now - token.ts) > PASSWORD_RESET_TIMEOUT)

\* send_activation_email: the link sent to the user's address.
send_activation_email(A, pk, now) ==
    [to |-> pk, uidb64 |-> urlsafe_base64_encode(pk), token |-> make_token(A, pk, now)]

\* RegisterView: RegisterForm.clean_email refuses a registered address;
\* form_valid stores the user, sets is_active and sends the activation link.
RegisterView(email) ==
    /\ clock' = Now
    /\ IF email \in DOMAIN accounts
       THEN /\ resp' = Invalid("RegisterView", NoUser, Null, 200, {"email"}, {})
            /\ UNCHANGED auth
       ELSE LET A == accounts @@ (email :> [is_active |-> TRUE, last_login |-> Null])
            IN  /\ accounts' = A
                /\ mail' = mail \cup {send_activation_email(A, email, Now)}
                /\ resp' = Response("RegisterView", NoUser, Null, 302, "ok", {})
                /\ UNCHANGED session
    /\ UNCHANGED <<db, seq>>

\* CustomLoginView with the right password: AuthenticationForm refuses an
\* inactive user; login() stores the user in the session and the
\* user_logged_in receiver stamps last_login.
CustomLoginView(pk) ==
    /\ clock' = Now
    /\ IF pk \notin DOMAIN accounts \/ ~accounts[pk].is_active
       THEN /\ resp' = Invalid("CustomLoginView", NoUser, Null, 200, {"__all__"}, {})
            /\ UNCHANGED auth
       ELSE /\ session' = pk
            /\ accounts' = [accounts EXCEPT ![pk].last_login = Now]
            /\ resp' = Response("CustomLoginView", pk, Null, 302, "ok", {})
            /\ UNCHANGED mail
    /\ UNCHANGED <<db, seq>>

\* auth_views.LogoutView: the session is flushed.
LogoutView ==
    /\ clock' = Now
    /\ session' = NoUser
    /\ resp' = Response("LogoutView", session, Null, 200, "ok", {})
    /\ UNCHANGED <<db, seq, accounts, mail>>

\* ResendActivationView.post: LoginRequiredMixin sends an anonymous visitor
\* to the login page; getattr(user, 'is_verified', False) is always False,
\* so the link is always sent again.
ResendActivationView ==
    /\ clock' = Now
    /\ IF session = NoUser
       THEN /\ resp' = Response("ResendActivationView", NoUser, Null, 302, "login", {})
            /\ UNCHANGED auth
       ELSE /\ mail' = mail \cup {send_activation_email(accounts, session, Now)}
            /\ resp' = Response("ResendActivationView", session, Null, 302, "ok", {})
            /\ UNCHANGED <<accounts, session>>
    /\ UNCHANGED <<db, seq>>

\* ActivateEmailView.get.  With a user and a token that check_token accepts,
\* the view calls login() and then redirect('users:profile'); urls.py has no
\* route of that name, so reverse raises NoReverseMatch and the answer is the
\* 500 page: the session middleware does not save the session of a 5xx
\* answer, and the last_login stamp is rolled back with the request.  When
\* the session holds another user, login() flushes it first, which a session
\* store outside the database keeps.
ActivateEmailView(uidb64, token) ==
    LET uid == urlsafe_base64_decode(uidb64)
        user == IF uid \in DOMAIN accounts THEN uid ELSE NoUser
    IN  /\ clock' = Now
        /\ IF user # NoUser /\ check_token(accounts, user, token, Now)
           THEN /\ resp' = Sent(Response("ActivateEmailView", session, uidb64,
                                         500, "error", {}), token)
                /\ accounts' = IF AtomicRequests THEN accounts
                               ELSE [accounts EXCEPT ![user].last_login = Now]
                /\ session' \in IF session \in {NoUser, user} THEN {session}
                                ELSE {session, NoUser}
                /\ UNCHANGED mail
           ELSE /\ resp' = Sent(Response("ActivateEmailView", session, uidb64,
                                         302, "activation_invalid", {}), token)
                /\ UNCHANGED auth
        /\ UNCHANGED <<db, seq>>

\* The uidb64 values a visitor may put in the link: text that is not
\* base64, the encoding of something that is no primary key, and the
\* encodings of primary keys.
UidInputs == {<<"%", "">>, urlsafe_base64_encode("u9")}
             \cup {urlsafe_base64_encode(pk) : pk \in {"u1"} \cup NewUsers}

\* A token made without the secret key.
ForgedToken(pk) == [ts |-> 1, mac |-> <<"guess", <<pk, 1, FALSE, TRUE>>>>]

TokenInputs == {m.token : m \in mail} \cup {ForgedToken("u1")}

NextUsers ==
    /\ clock < MaxStepsUsers
    /\ UNCHANGED inflight
    /\ \/ \E email \in {"u1"} \cup NewUsers : RegisterView(email)
       \/ \E pk \in {"u1", "u9"} : CustomLoginView(pk)
       \/ LogoutView
       \/ ResendActivationView
       \/ \E uidb64 \in UidInputs, token \in TokenInputs :
            ActivateEmailView(uidb64, token)

SpecUsers == Init /\ [][NextUsers]_vars

\* The link names an existing user and carries a token that was sent to that
\* user, is not older than the timeout and was made for the user's present
\* activation state.
LinkIsValid(uidb64, token) ==
    \E m \in mail :
       /\ m.uidb64 = uidb64
       /\ m.token = token
       /\ m.to \in DOMAIN accounts
       /\ ~((Now - token.ts) > PASSWORD_RESET_TIMEOUT)
       /\ token = make_token(accounts, m.to, token.ts)

\* C16: ActivateEmailView logs a user in or changes a user only when the
\* uidb64 decodes to an existing user and the token is valid for that user;
\* for every other link (malformed uid, unknown user, wrong or stale token)
\* it redirects to activation_invalid, logs nobody in and changes no user.
C16_ActivationOnlyWithValidLink ==
    [][\A uidb64 \in UidInputs, token \in TokenInputs :
          ActivateEmailView(uidb64, token) =>
             /\ ~UNCHANGED <<accounts, session>> => LinkIsValid(uidb64, token)
             /\ ~LinkIsValid(uidb64, token)
                   => /\ resp'.outcome = "activation_invalid"
                      /\ resp'.status = 302
                      /\ UNCHANGED <<accounts, session, mail>>
      ]_vars

\* The link just refused named an existing user but carried the fresh token
\* that was sent to another user.
C16_Witness ==
    /\ resp.op = "ActivateEmailView"
    /\ resp.outcome = "activation_invalid"
    /\ urlsafe_base64_decode(resp.target) \in DOMAIN accounts
    /\ \E m \in mail :
          /\ m.token = resp.sent
          /\ m.to # urlsafe_base64_decode(resp.target)
          /\ ~((clock - m.token.ts) > PASSWORD_RESET_TIMEOUT)

\* The link just refused carried the token sent to the user it names, after
\* the timeout.
C16_WitnessStale ==
    /\ resp.op = "ActivateEmailView"
    /\ resp.outcome = "activation_invalid"
    /\ \E m \in mail :
          /\ m.token = resp.sent
          /\ m.uidb64 = resp.target
          /\ (clock - m.token.ts) > PASSWORD_RESET_TIMEOUT

(***************************************************************************)
(* Concurrent requests on one task.  A request is split where the view has *)
(* read its Task instance and passed its checks: what it writes later is   *)
(* computed from that instance and from the rows stored at that later      *)
(* time.  Neither the views nor the receivers lock a row                   *)
(* (select_for_update) or update in place (F expressions), so another      *)
(* request may run to its end between the two steps.                       *)
(***************************************************************************)
MaxRequests == 2

MaxStepsConcurrent == 6

Slots == 1 .. MaxRequests

TaskColumns == {"creator", "assignee", "status", "priority", "deadline", "title",
                "parent_task", "completed_at", "actual_hours"}

\* Model.save(update_fields=cols) of the instance inst on the stored row id
\* (cols = TaskColumns for a plain save()): track_task_changes and
\* store_old_values read the stored row and compare it with the instance,
\* the UPDATE writes the columns cols of the instance, create_system_comments
\* compares the kept old values with the instance, and set_completed_date
\* looks at the instance.
TaskSaveColumns(id, inst, cols, changed_by, s) ==
    LET old == tasks[id]
        row == [c \in TaskColumns |-> IF c \in cols THEN inst[c] ELSE old[c]]
    IN  /\ tasks' = [tasks EXCEPT ![id] =
                        IF inst.status = "completed" /\ inst.completed_at = Null
                        THEN [row EXCEPT !.completed_at = Now] ELSE row]
        /\ history' = history @@ track_task_changes(id, old, inst, changed_by)
        /\ comments' = comments @@ create_system_comments(id, old, inst, changed_by)
        /\ seq' = [s EXCEPT
                     !.history = @ + Len(ChangedFields(old, inst)),
                     !.comment = @ + Len(SystemCommentKinds(old, inst))]

\* The request leaves inflight once it is answered.
Answered(p) == inflight' = Remove(inflight, {p})

\* task_update up to form.save(commit=False): the lookup, the permission
\* test and the form validation, all on the row as it is read now.
task_update_read(p, u, id, title, status, priority, assignee, deadline) ==
    /\ p \notin DOMAIN inflight
    /\ clock' = Now
    /\ UNCHANGED <<db, seq>>
    /\ IF id \notin TaskIds
       THEN /\ resp' = Response("task_update", u, id, 404, "not_found", {})
            /\ UNCHANGED inflight
       ELSE IF ~can_edit_task(u, id)
       THEN /\ resp' = Response("task_update", u, id, 403, "denied", {})
            /\ UNCHANGED inflight
       ELSE IF TaskUpdateFormErrors(id, u, title, status, priority, assignee, deadline) # {}
       THEN /\ resp' = Sent(Invalid("task_update", u, id, 400,
                     TaskUpdateFormErrors(id, u, title, status, priority,
                                          assignee, deadline), {}), status)
            /\ UNCHANGED inflight
       ELSE /\ inflight' = inflight @@ (p :>
                 [op |-> "task_update", user |-> u, id |-> id, hours |-> 0,
                  inst |-> [tasks[id] EXCEPT !.title = title, !.status = status,
                               !.priority = priority, !.assignee = assignee,
                               !.deadline = deadline]])
            /\ UNCHANGED resp

\* task_update from task.save() on: every column of the instance is written.
task_update_write(p) ==
    /\ p \in DOMAIN inflight
    /\ inflight[p].op = "task_update"
    /\ clock' = Now
    /\ Answered(p)
    /\ LET r == inflight[p]
       IN  IF ReassignRaises(tasks[r.id], r.inst) /\ AtomicRequests
           THEN /\ resp' = Response("task_update", r.user, r.id, 500, "error", {})
                /\ UNCHANGED <<db, seq>>
           ELSE /\ TaskSaveColumns(r.id, r.inst, TaskColumns, r.user, seq)
                /\ resp' = Response("task_update", r.user, r.id, 302, "ok", {})
                /\ UNCHANGED <<checklist, watchers, attachments, entries>>

\* task_time_entry_create up to form.save(commit=False).
task_time_entry_create_read(p, u, id, hours, age) ==
    /\ p \notin DOMAIN inflight
    /\ clock' = Now
    /\ UNCHANGED <<db, seq>>
    /\ IF id \notin TaskIds
       THEN /\ resp' = Response("task_time_entry_create", u, id, 404, "not_found", {})
            /\ UNCHANGED inflight
       ELSE IF ~can_log_time(u, id)
       THEN /\ resp' = Response("task_time_entry_create", u, id, 403, "denied", {})
            /\ UNCHANGED inflight
       ELSE IF TimeEntryFormErrors(hours, age) # {}
       THEN /\ resp' = Invalid("task_time_entry_create", u, id, 400,
                               TimeEntryFormErrors(hours, age), {id})
            /\ UNCHANGED inflight
       ELSE /\ inflight' = inflight @@ (p :>
                 [op |-> "task_time_entry_create", user |-> u, id |-> id,
                  hours |-> hours, inst |-> tasks[id]])
            /\ UNCHANGED resp

\* task_time_entry_create from entry.save() on: the insert, the aggregate
\* and task.save(update_fields=['actual_hours']) of the instance read
\* earlier.
task_time_entry_create_write(p) ==
    /\ p \in DOMAIN inflight
    /\ inflight[p].op = "task_time_entry_create"
    /\ clock' = Now
    /\ Answered(p)
    /\ LET r == inflight[p]
           E == entries @@ (seq.entry :> [task |-> r.id, user |-> r.user,
                                          hours |-> r.hours])
           inst == [r.inst EXCEPT !.actual_hours = TotalHours(E, r.id)]
       IN  IF ReassignRaises(tasks[r.id], inst) /\ AtomicRequests
           THEN /\ resp' = Response("task_time_entry_create", r.user, r.id, 500,
                                    "error", {})
                /\ UNCHANGED <<db, seq>>
           ELSE /\ entries' = E
                /\ TaskSaveColumns(r.id, inst, {"actual_hours"}, inst.creator,
                                   [seq EXCEPT !.entry = @ + 1])
                /\ resp' = Response("task_time_entry_create", r.user, r.id, 302,
                                    "ok", {r.id})
                /\ UNCHANGED <<checklist, watchers, attachments>>

\* task_time_entry_delete up to the permission test; task = entry.task is
\* read here.
task_time_entry_delete_read(p, u, e) ==
    /\ p \notin DOMAIN inflight
    /\ clock' = Now
    /\ UNCHANGED <<db, seq>>
    /\ IF e \notin DOMAIN entries
       THEN /\ resp' = Response("task_time_entry_delete", u, e, 404, "not_found", {})
            /\ UNCHANGED inflight
       ELSE IF ~can_delete_time_entry(u, e)
       THEN /\ resp' = Response("task_time_entry_delete", u, e, 403, "denied", {})
            /\ UNCHANGED inflight
       ELSE /\ inflight' = inflight @@ (p :>
                 [op |-> "task_time_entry_delete", user |-> u,
                  id |-> entries[e].task, hours |-> e,
                  inst |-> tasks[entries[e].task]])
            /\ UNCHANGED resp

\* task_time_entry_delete from entry.delete() on; hours holds the entry id.
task_time_entry_delete_write(p) ==
    /\ p \in DOMAIN inflight
    /\ inflight[p].op = "task_time_entry_delete"
    /\ clock' = Now
    /\ Answered(p)
    /\ LET r == inflight[p]
           E == Remove(entries, {r.hours})
           inst == [r.inst EXCEPT !.actual_hours = TotalHours(E, r.id)]
       IN  IF ReassignRaises(tasks[r.id], inst) /\ AtomicRequests
           THEN /\ resp' = Response("task_time_entry_delete", r.user, r.hours, 500,
                                    "error", {})
                /\ UNCHANGED <<db, seq>>
           ELSE /\ entries' = E
                /\ TaskSaveColumns(r.id, inst, {"actual_hours"}, inst.creator, seq)
                /\ resp' = Response("task_time_entry_delete", r.user, r.hours, 302,
                                    "ok", {r.id})
                /\ UNCHANGED <<checklist, watchers, attachments>>

NextConcurrent ==
    /\ clock < MaxStepsConcurrent
    /\ UNCHANGED auth
    /\ \/ /\ seq.task <= MaxTasksLifecycle
          /\ task_create("u1", FALSE, "t1", "new", "low", "u2", Null, Null)
          /\ UNCHANGED inflight
       \/ \E p \in Slots, status \in {"in_progress", "completed"} :
            task_update_read(p, "u1", 1, "t1", status, "low", "u2", Null)
       \/ \E p \in Slots : task_update_write(p)
       \/ \E p \in Slots, u \in {"u1", "u2"}, hours \in {50, 100} :
            task_time_entry_create_read(p, u, 1, hours, 0)
       \/ \E p \in Slots : task_time_entry_create_write(p)
       \/ \E p \in Slots, e \in EntryInputs : task_time_entry_delete_read(p, "u2", e)
       \/ \E p \in Slots : task_time_entry_delete_write(p)

SpecConcurrent == Init /\ [][NextConcurrent]_vars

\* C17: once every concurrent request on a task has finished, the stored
\* actual_hours of the task equals the sum of hours of its TimeEntry rows.
C17_NoStaleTotal ==
    (DOMAIN inflight = {})
       => \A t \in TaskIds : tasks[t].actual_hours = TotalHours(entries, t)

\* The column that a TaskHistory row names by its label.
ColumnOf(label) ==
    CHOOSE f \in {TrackedFields[i] : i \in DOMAIN TrackedFields} :
       fields_to_track[f] = label

\* C19: every TaskHistory row and every 'status / assignee / deadline
\* changed' system comment is written by a step that changes the stored
\* field, for a history row from the recorded old value to the recorded new
\* value; a step that stores or removes a time entry writes neither, also
\* when a task_update ran since the request read the task.
C19_HistoryMatchesStoredChange ==
    [][/\ \A h \in (DOMAIN history') \ (DOMAIN history) :
             LET row == history'[h]
                 f == ColumnOf(row.field)
             IN  /\ row.task \in TaskIds
                 /\ row.task \in DOMAIN tasks'
                 /\ tasks[row.task][f] # tasks'[row.task][f]
                 /\ row.old_value = FieldStr(f, tasks[row.task][f])
                 /\ row.new_value = FieldStr(f, tasks'[row.task][f])
       /\ \A c \in (DOMAIN comments') \ (DOMAIN comments) :
             LET row == comments'[c]
             IN  (row.is_system /\ row.text \in {"status", "assignee", "deadline"})
                    => /\ row.task \in TaskIds
                       /\ row.task \in DOMAIN tasks'
                       /\ tasks[row.task][row.text] # tasks'[row.task][row.text]
       /\ entries' # entries
             => /\ DOMAIN history' = DOMAIN history
                /\ DOMAIN comments' = DOMAIN comments
      ]_vars

\* The TaskHistory rows of the task t for the status field.
StatusHistory(t) ==
    {h \in DOMAIN history : history[h].task = t /\ history[h].field = "Status"}

\* The most recent row of a non-empty set of TaskHistory rows.
Latest(H) == CHOOSE h \in H : \A g \in H : g <= h

\* C18: for every task that has a TaskHistory row for the status field, the
\* new_value of the most recent such row is the stored status of the task.
C18_StatusHistoryIsCurrent ==
    \A t \in TaskIds :
       StatusHistory(t) # {}
          => history[Latest(StatusHistory(t))].new_value = tasks[t].status

\* C20: in every reachable state a task whose stored status is 'completed'
\* has a completed_at that is not null.
C20_CompletedHasCompletedAt ==
    \A t \in TaskIds :
       tasks[t].status = "completed" => tasks[t].completed_at # Null

(***************************************************************************)
(* Task.clean and TaskCreateForm.clean_parent_task as pure functions of    *)
(* the stored parent_task graph: every acyclic graph over a few tasks,     *)
(* every instance (saved or new) and every proposed parent                 *)
(***************************************************************************)
MaxTasksParents == 3

ParentIds == 1 .. MaxTasksParents

\* Task rows as task_create leaves them, with the parent_task column pm.
TaskRows(pm) ==
    [i \in DOMAIN pm |->
        [creator |-> "u1", assignee |-> "u2", status |-> "new",
         priority |-> "low", deadline |-> Null, title |-> "t1",
         parent_task |-> pm[i], completed_at |-> Null, actual_hours |-> 0]]

\* The parent_task columns in which no task reaches itself.
AcyclicParents ==
    {pm \in [ParentIds -> {Null} \cup ParentIds] :
        \A t \in ParentIds : t \notin Ancestors(TaskRows(pm), t)}

\* The database after MaxTasksParents tasks were created and re-parented.
InitParents ==
    /\ \E pm \in AcyclicParents : tasks = TaskRows(pm)
    /\ comments = [i \in ParentIds |->
                      [task |-> i, author |-> "u1", text |-> "created",
                       is_system |-> TRUE]]
    /\ history = << >>
    /\ checklist = << >>
    /\ watchers = << >>
    /\ attachments = << >>
    /\ entries = << >>
    /\ seq = [InitSeq EXCEPT !.task = MaxTasksParents + 1,
                             !.comment = MaxTasksParents + 1]
    /\ clock = 0
    /\ resp = NoResp
    /\ accounts = [u \in Users |-> [is_active |-> TRUE, last_login |-> Null]]
    /\ session = NoUser
    /\ mail = {}
    /\ inflight = << >>

\* The answer of a parent check: target is the instance's primary key
\* (Null for a new task), shown holds the proposed parent.
ParentVerdict(op, pk, parent, accepted) ==
    IF accepted
    THEN Response(op, NoUser, pk, 0, "ok", {parent} \ {Null})
    ELSE Invalid(op, NoUser, pk, 0, {"parent_task"}, {parent} \ {Null})

\* instance.clean() for the instance pk with parent_task set to parent.
TaskCleanCall(pk, parent) ==
    /\ resp' = ParentVerdict("Task.clean", pk, parent,
                             TaskClean(tasks, pk, parent))
    /\ UNCHANGED <<db, seq, clock, auth, inflight>>

\* form.clean_parent_task() for the form bound to the instance pk.
clean_parent_task_call(pk, parent) ==
    /\ resp' = ParentVerdict("clean_parent_task", pk, parent,
                             clean_parent_task(tasks, pk, parent))
    /\ UNCHANGED <<db, seq, clock, auth, inflight>>

NextParents ==
    \/ \E pk \in {Null} \cup ParentIds, parent \in {Null} \cup ParentIds :
          TaskCleanCall(pk, parent)
    \/ \E pk \in {Null} \cup ParentIds, parent \in {Null} \cup ParentIds :
          clean_parent_task_call(pk, parent)

SpecParents == InitParents /\ [][NextParents]_vars

\* C21: in an acyclic task graph, for an existing task T and a proposed
\* parent P, Task.clean and clean_parent_task give the same verdict and
\* refuse P exactly when P is T or T is an ancestor of P; for a new task
\* (no primary key) both accept every existing task as parent.  The last
\* answer of either check agrees with this.
C21_ParentChecksAgree ==
    /\ \A T \in TaskIds, P \in TaskIds :
          /\ TaskClean(tasks, T, P) = clean_parent_task(tasks, T, P)
          /\ ~TaskClean(tasks, T, P) <=> (P = T \/ T \in Ancestors(tasks, P))
    /\ \A P \in TaskIds :
          TaskClean(tasks, Null, P) /\ clean_parent_task(tasks, Null, P)
    /\ resp.op \in {"Task.clean", "clean_parent_task"} =>
          \A P \in resp.shown :
             (resp.outcome = "invalid") <=>
                 /\ resp.target # Null
                 /\ (P = resp.target \/ resp.target \in Ancestors(tasks, P))

\* The form check has just refused a parent whose own parent is another
\* task again, because the instance is that parent's grandparent.
C21_Witness ==
    /\ resp.op = "clean_parent_task"
    /\ resp.outcome = "invalid"
    /\ \E P \in resp.shown :
          /\ P \in TaskIds
          /\ P # resp.target
          /\ tasks[P].parent_task # resp.target
          /\ resp.target \in Ancestors(tasks, P)

\* Task.clean has just accepted an existing task as parent of a new task.
C21_WitnessNew ==
    /\ resp.op = "Task.clean"
    /\ resp.outcome = "ok"
    /\ resp.target = Null
    /\ resp.shown # {}

(***************************************************************************)
(* System comments written by the post_save receiver                       *)
(***************************************************************************)
\* The requests that call Task.save() on an existing row.
SaveOps == {"task_update", "admin_task_change"}

\* The system comments on task t that the step has added.
NewSystemComments(t) ==
    {c \in DOMAIN comments' \ DOMAIN comments :
        comments'[c].task = t /\ comments'[c].is_system}

\* The fields among status, assignee and deadline whose stored value the
\* step has changed on task t.
ChangedCommentedFields(t) ==
    {f \in {"status", "assignee", "deadline"} : tasks[t][f] # tasks'[t][f]}

\* C22: creating a task adds exactly one system comment, authored by the
\* creator; each later save of a task adds exactly one system comment per
\* changed field among status, assignee and deadline, authored by the user
\* who made the request, and none when none of the three changed; no save
\* fails instead of writing its comments.
C22_SystemCommentPerChange ==
    [][/\ (resp'.op = "task_create" /\ resp'.outcome = "ok") =>
             /\ Cardinality(DOMAIN comments' \ DOMAIN comments) = 1
             /\ Cardinality(NewSystemComments(resp'.target)) = 1
             /\ \A c \in NewSystemComments(resp'.target) :
                   comments'[c].author = tasks'[resp'.target].creator
       /\ (resp'.op \in SaveOps /\ resp'.outcome = "ok") =>
             LET t == resp'.target
             IN  /\ Cardinality(NewSystemComments(t)) =
                       Cardinality(ChangedCommentedFields(t))
                 /\ \A f \in ChangedCommentedFields(t) :
                       \E c \in NewSystemComments(t) : comments'[c].text = f
                 /\ \A c \in NewSystemComments(t) :
                       comments'[c].author = resp'.user
       /\ ~(resp'.op \in SaveOps /\ resp'.outcome = "error")
      ]_vars

(***************************************************************************)
(* task_list under query parameters that parse and that do not             *)
(***************************************************************************)
MaxStepsList == 3

\* The values a request gives a parameter: some that parse, some that not.
ParamValues ==
    [status |-> {"new", "completed"},
     assignee |-> {"1", "abc"},
     creator |-> {"2", "x1"},
     deadline_from |-> {"2026-11-10", "10.11.2026"},
     deadline_to |-> {"2026-11-10", "tomorrow"},
     tags |-> {"1", "a,b"},
     ordering |-> {"title", "rank", ""},
     per_page |-> {"0", "1", "500", "abc"}]

\* The parameters a request may name, two at a time.
ParamNames == <<"status", "assignee", "creator", "deadline_from",
                "deadline_to", "tags", "ordering", "per_page">>

NextList ==
    /\ clock < MaxStepsList
    /\ UNCHANGED <<auth, inflight>>
    /\ \/ \E u \in {"u1", "u2"}, assignee \in {"u1", "u2"},
             deadline \in {Null, 12} :
            /\ seq.task <= MaxTasks
            /\ task_create(u, FALSE, "t1", "new", "low", assignee, deadline, Null)
       \/ \E u \in {"u1", "u2"}, i \in DOMAIN ParamNames,
             j \in DOMAIN ParamNames :
            /\ i < j
            /\ \E v1 \in ParamValues[ParamNames[i]] \cup {Absent},
                  v2 \in ParamValues[ParamNames[j]] \cup {Absent} :
                  task_list(u, [k \in QueryKeys |->
                                   IF k = ParamNames[i] THEN v1
                                   ELSE IF k = ParamNames[j] THEN v2
                                   ELSE Absent])

SpecList == Init /\ [][NextList]_vars

\* The values of a parameter that task_list can use: integers for assignee,
\* creator and per_page, dates for the deadline bounds, digits between
\* commas for tags, the listed names for ordering.
WellFormed(k, v) ==
    CASE k \in {"assignee", "creator", "per_page"} -> v \in DOMAIN IntOf
      [] k \in {"deadline_from", "deadline_to"} -> v \in DOMAIN DateOf
      [] k = "tags" -> v = "1"
      [] k = "ordering" -> v \in allowed_ordering
      [] OTHER -> TRUE

\* The query without its parameters that are not well formed.
WithoutInvalid(GET) ==
    [k \in QueryKeys |-> IF WellFormed(k, GET[k]) THEN GET[k] ELSE Absent]

\* C23: task_list tolerates every invalid query parameter: it answers 200,
\* never 500, with a page size within 1..100, and shows the page that the
\* same query without its invalid parameters gives.
C23_TaskListTolerant ==
    resp.op = "task_list" =>
        /\ resp.status = 200
        /\ resp.per_page \in 1 .. 100
        /\ resp.shown =
              FirstPage(TaskListNarrowed(
                           TaskListFiltered(resp.user,
                                            Get(resp.query, "status", ""),
                                            Get(resp.query, "priority", "")),
                           WithoutInvalid(resp.query)),
                        PerPage(WithoutInvalid(resp.query)))

====
